---------------------------- MODULE Spec2Model ----------------------------
(***************************************************************************)
(* PhotoGPT: the embedding retrieval engine (src/src/faiss_utils.py,       *)
(* src/src/online_query.py), the offline index build                       *)
(* (src/src/offline_indexing.py) and the person profile store              *)
(* (src/src/person_manager.py).                                            *)
(*                                                                         *)
(* Numbers.  A float32 value is carried as an integer number of ticks:     *)
(* vector coordinates in ticks of 2^-13, squared distances in ticks of     *)
(* 2^-26, similarities and thresholds in ticks of 2^-27 (so that dist / 2  *)
(* in ticks of 2^-27 is the same integer as dist in ticks of 2^-26).       *)
(* RoundF32 rounds an integer to 24 significant bits, ties to even, which  *)
(* is float32 rounding whatever the tick is.                               *)
(*                                                                         *)
(* Python's None is carried by an isNone field, so that every variable     *)
(* keeps one shape.  FAISS ordinals (face_id, item_id) are 0-based as in   *)
(* the code; TLA+ sequences are 1-based, so record i sits at position i+1. *)
(***************************************************************************)
EXTENDS Integers, Sequences, FiniteSets, TLC

VARIABLES
    indexFile,      \* faiss.index on disk: [exists, xb]
    metadataFile,   \* metadata.json on disk: [exists, records]
    index,          \* FaissIndexManager.index of the retriever: [isNone, xb]
    metadata,       \* FaissIndexManager.metadata of the retriever
    call,           \* the last retrieval call and its arguments
    result,         \* what that call returned (or the exception it raised)
    profiles,       \* PersonManager.profiles, in dict insertion order
    profilesFile,   \* person_profiles.json on disk: [exists, data]
    pmCall,         \* the last PersonManager call and its arguments
    pmResult,       \* what that call returned (or the exception it raised)
    ioErrors,       \* how many writes of person_profiles.json have failed
    peerProfiles    \* PersonManager.profiles of a second script run of app.py

queryVars == <<indexFile, metadataFile, index, metadata, call, result>>
profileVars == <<profiles, profilesFile, pmCall, pmResult, ioErrors, peerProfiles>>
vars == <<indexFile, metadataFile, index, metadata, call, result,
          profiles, profilesFile, pmCall, pmResult, ioErrors, peerProfiles>>

---------------------------------------------------------------------------
(* float32 arithmetic *)

RECURSIVE Pow2(_)
Pow2(n) == IF n = 0 THEN 1 ELSE 2 * Pow2(n - 1)

Abs(x) == IF x < 0 THEN -x ELSE x

\* width of the float32 significand
SignificandBits == 24

\* the significands are the integers below this
SignificandEnd == Pow2(SignificandBits)

\* the unit in the last place of a: the least power of two u with a < 2^24 * u
RECURSIVE UlpOf(_, _)
UlpOf(a, u) == IF a < SignificandEnd * u THEN u ELSE UlpOf(a, 2 * u)

\* round to nearest float32, ties to even
RoundF32(v) ==
    LET a == Abs(v)
        u == UlpOf(a, 1)
        q == a \div u
        r == a % u
        m == IF 2 * r < u THEN q
             ELSE IF 2 * r > u THEN q + 1
             ELSE IF q % 2 = 0 THEN q ELSE q + 1
    IN  IF v < 0 THEN -(m * u) ELSE m * u

\* 1.0 in similarity ticks (2^-27)
One == Pow2(27)

---------------------------------------------------------------------------
(* embeddings *)

\* an embedding has two coordinates here (the reference uses embedding_dim = 512)
\* 1.0 in coordinate ticks (2^-13)
Unit == Pow2(13)

\* the embeddings the provider returns in this model: a unit vector, a
\* near-duplicate of it one coordinate tick away, an orthogonal one, the
\* opposite one, and one about 60 degrees off (normalised up to rounding)
E1 == <<Unit, 0>>
E2 == <<Unit, 1>>
E3 == <<0, Unit>>
E4 == <<-Unit, 0>>
E5 == <<4096, 7094>>

\* squared L2 distance as IndexFlatL2 computes it in float32
L2sqr(x, y) ==
    LET d1 == x[1] - y[1]
        d2 == x[2] - y[2]
    IN  RoundF32(RoundF32(d1 * d1) + RoundF32(d2 * d2))

---------------------------------------------------------------------------
(* FaissIndexManager: src/src/faiss_utils.py *)

NoIndex == [isNone |-> TRUE, xb |-> <<>>]
NoMetadataRecord == [isNone |-> TRUE, item_id |-> -1, image_path |-> "", mode |-> ""]

\* the distance FAISS reports in an unfilled slot (FLT_MAX); never read
FltMax == Pow2(30)

\* the farthest first
Farther(dists, i, j) ==
    \/ dists[i] > dists[j]
    \/ dists[i] = dists[j] /\ i < j

\* position i is nearer than position j: smaller distance, then smaller
\* ordinal
Nearer(dists, i, j) ==
    \/ dists[i] < dists[j]
    \/ dists[i] = dists[j] /\ i < j

\* the positions from the nearest on, n of them
RECURSIVE NearestFirst(_, _, _)
NearestFirst(dists, left, n) ==
    IF n = 0 \/ left = {} THEN <<>>
    ELSE LET best == CHOOSE i \in left : \A j \in left \ {i} : Nearer(dists, i, j)
         IN  <<best>> \o NearestFirst(dists, left \ {best}, n - 1)

\* IndexFlatL2.search for one query: k slots, the nearest records first, the
\* unfilled slots holding ordinal -1
IndexFlatL2_search(xb, q, k) ==
    LET dists == [i \in 1..Len(xb) |-> L2sqr(q, xb[i])]
        order == NearestFirst(dists, 1..Len(xb), k)
    IN  [r \in 1..k |->
            IF r <= Len(order)
            THEN [dist |-> dists[order[r]], idx |-> order[r] - 1]
            ELSE [dist |-> FltMax, idx |-> -1]]

\* search without "if self.index is None": None has no attribute search
search_Unchecked(idx, query_embedding, k) ==
    IF idx.isNone
    THEN [raised |-> "AttributeError", found |-> <<>>]
    ELSE [raised |-> "",
          found |-> IndexFlatL2_search(idx.xb, query_embedding, k)]

\* FaissIndexManager.search: the zipped (distance, index) pairs, or the error
search(idx, query_embedding, k) ==
    IF idx.isNone
    THEN [raised |-> "ValueError", found |-> <<>>]
    ELSE [raised |-> "",
          found |-> IndexFlatL2_search(idx.xb, query_embedding, k)]

\* the conversion without the halving: 1 - dist
CosineSimilarity_Unhalved(dist) == RoundF32(One - 2 * dist)

\* cosine_similarity = 1 - (dist / 2), in float32
CosineSimilarity(dist) == RoundF32(One - dist)

\* the filter with > for >=, the filter left out, and the filter turned round
KeepsCandidateBelow(cosine_similarity, similarity_threshold) ==
    cosine_similarity <= similarity_threshold

KeepsCandidateStrict(cosine_similarity, similarity_threshold) ==
    cosine_similarity > similarity_threshold

KeepsCandidateAlways(cosine_similarity, similarity_threshold) == TRUE

\* the filter of search_with_threshold
KeepsCandidate(cosine_similarity, similarity_threshold) ==
    cosine_similarity >= similarity_threshold

\* self.metadata[idx] if idx < len(self.metadata) else None
MetadataOf(md, idx) ==
    IF idx < Len(md)
    THEN [isNone |-> FALSE, item_id |-> md[idx + 1].item_id,
          image_path |-> md[idx + 1].image_path, mode |-> md[idx + 1].mode]
    ELSE NoMetadataRecord

\* one metadata record as json.dump writes it and json.load reads it: an
\* object with the record's keys, its integer and its strings unchanged
JsonRecord(m) ==
    [item_id |-> m.item_id, image_path |-> m.image_path, mode |-> m.mode]

\* save_metadata: metadata.json holds the list, record by record
save_metadata(all_metadata) ==
    [exists |-> TRUE,
     content |-> [i \in 1..Len(all_metadata) |-> JsonRecord(all_metadata[i])]]

\* load_metadata: self.metadata is the list read from the file
load_metadata(file) ==
    [i \in 1..Len(file.content) |-> JsonRecord(file.content[i])]

\* the loop over zip(distances, indices): the candidates that are appended to
\* results, in the order of the search
CollectResults(found, md, similarity_threshold) ==
    LET Kept(c) == /\ c.idx # -1
                   /\ KeepsCandidate(CosineSimilarity(c.dist), similarity_threshold)
        kept == SelectSeq(found, Kept)
    IN  [i \in 1..Len(kept) |->
            [face_id |-> kept[i].idx,
             similarity |-> CosineSimilarity(kept[i].dist),
             distance |-> kept[i].dist,
             metadata |-> MetadataOf(md, kept[i].idx)]]

\* an unstable sort: an element goes before the elements of equal similarity
RECURSIVE InsertResultUnstable(_, _)
InsertResultUnstable(sorted, r) ==
    IF sorted = <<>> THEN <<r>>
    ELSE IF Head(sorted).similarity > r.similarity
    THEN <<Head(sorted)>> \o InsertResultUnstable(Tail(sorted), r)
    ELSE <<r>> \o sorted

\* list.sort(key = similarity, reverse = True) is stable: an element goes
\* behind every element whose similarity is at least its own
RECURSIVE InsertResult(_, _)
InsertResult(sorted, r) ==
    IF sorted = <<>> THEN <<r>>
    ELSE IF Head(sorted).similarity >= r.similarity
    THEN <<Head(sorted)>> \o InsertResult(Tail(sorted), r)
    ELSE <<r>> \o sorted

RECURSIVE SortResults(_)
SortResults(rs) ==
    IF rs = <<>> THEN <<>>
    ELSE InsertResult(SortResults(SubSeq(rs, 1, Len(rs) - 1)), rs[Len(rs)])

search_with_threshold(idx, md, query_embedding, similarity_threshold, max_results) ==
    LET s == search(idx, query_embedding, max_results)
    IN  IF s.raised # ""
        THEN [raised |-> s.raised, results |-> <<>>]
        ELSE [raised |-> "",
              results |-> SortResults(CollectResults(s.found, md, similarity_threshold))]

---------------------------------------------------------------------------
(* PhotoRetriever: src/src/online_query.py *)

\* similarity_threshold: float = 0.5 is the default; max_results: int = 100
DefaultMaxResults == 100

\* the result dictionary a query starts from
EmptyResult ==
    [raised |-> "", success |-> FALSE, message |-> "",
     query_info |-> [query_type |-> ""], matches |-> <<>>, total_photos |-> 0]

Raised(exc) == [EmptyResult EXCEPT !.raised = exc]

\* 'max_similarity': 0.0 of a new photo group
InitialMaxSimilarity == 0

\* photo_groups[image_path] of a path not seen before
NewGroup(image_path) ==
    [image_path |-> image_path, faces |-> <<>>,
     max_similarity |-> InitialMaxSimilarity,
     avg_similarity |-> [num |-> 0, den |-> 1]]

\* if match['similarity'] > photo_groups[image_path]['max_similarity']
RaisesMax(similarity, max_similarity) == similarity > max_similarity

\* the grouping loop without the "image_path not in photo_groups" test: every
\* face opens a group
AddMatchUngrouped(groups, match) ==
    Append(groups,
           [NewGroup(match.metadata.image_path) EXCEPT
               !.faces = <<[similarity |-> match.similarity]>>,
               !.max_similarity = IF RaisesMax(match.similarity, @)
                                  THEN match.similarity ELSE @])

\* one turn of the grouping loop: the face joins its photo's group, which is
\* created at the end of the dict when the path is new
AddMatch(groups, match) ==
    LET image_path == match.metadata.image_path
        known == \E g \in 1..Len(groups) : groups[g].image_path = image_path
        gs == IF known THEN groups ELSE Append(groups, NewGroup(image_path))
        g == CHOOSE n \in 1..Len(gs) : gs[n].image_path = image_path
        face_info == [similarity |-> match.similarity]
    IN  [gs EXCEPT ![g] =
            [@ EXCEPT !.faces = Append(@, face_info),
                      !.max_similarity =
                          IF RaisesMax(match.similarity, @)
                          THEN match.similarity ELSE @]]

RECURSIVE GroupMatches(_, _)
GroupMatches(matches, n) ==
    IF n = 0 THEN <<>> ELSE AddMatch(GroupMatches(matches, n - 1), matches[n])

RECURSIVE SumSimilarities(_)
SumSimilarities(faces) ==
    IF faces = <<>> THEN 0
    ELSE faces[1].similarity + SumSimilarities(Tail(faces))

\* sum(similarities) / len(similarities), kept as the fraction it stands for
AvgSimilarity(faces) == [num |-> SumSimilarities(faces), den |-> Len(faces)]

\* the statistics of one photo group
PhotoStats(photo_info) ==
    [image_path |-> photo_info.image_path,
     faces |-> photo_info.faces,
     max_similarity |-> photo_info.max_similarity,
     avg_similarity |-> AvgSimilarity(photo_info.faces),
     num_matches |-> Len(photo_info.faces)]

\* face mode: group by image and aggregate
GroupedPhotos(matches) ==
    LET photo_groups == GroupMatches(matches, Len(matches))
    IN  [g \in 1..Len(photo_groups) |-> PhotoStats(photo_groups[g])]

\* full image mode: each match is a complete image
WrappedPhotos(matches) ==
    [i \in 1..Len(matches) |->
        [image_path |-> matches[i].metadata.image_path,
         similarity |-> matches[i].similarity,
         max_similarity |-> matches[i].similarity,
         avg_similarity |-> [num |-> matches[i].similarity, den |-> 1],
         num_matches |-> 1]]

\* the sort without reverse = True
RECURSIVE InsertPhotoAscending(_, _)
InsertPhotoAscending(sorted, p) ==
    IF sorted = <<>> THEN <<p>>
    ELSE IF Head(sorted).max_similarity <= p.max_similarity
    THEN <<Head(sorted)>> \o InsertPhotoAscending(Tail(sorted), p)
    ELSE <<p>> \o sorted

\* matched_photos.sort(key = max_similarity, reverse = True), stable
RECURSIVE InsertPhoto(_, _)
InsertPhoto(sorted, p) ==
    IF sorted = <<>> THEN <<p>>
    ELSE IF Head(sorted).max_similarity >= p.max_similarity
    THEN <<Head(sorted)>> \o InsertPhoto(Tail(sorted), p)
    ELSE <<p>> \o sorted

RECURSIVE SortPhotos(_)
SortPhotos(ps) ==
    IF ps = <<>> THEN <<>>
    ELSE InsertPhoto(SortPhotos(SubSeq(ps, 1, Len(ps) - 1)), ps[Len(ps)])

\* metadata[0].get('mode', 'face') if len(metadata) > 0 else 'face'
IndexMode(md) == IF Len(md) > 0 THEN md[1].mode ELSE "face"

\* match['metadata'] is None for a match beyond the metadata list, and
\* metadata['image_path'] then raises
MissingMetadata(matches) == \E i \in 1..Len(matches) : matches[i].metadata.isNone

Found(res, query_type, matched_photos, message) ==
    [res EXCEPT !.success = TRUE,
                !.query_info = [query_type |-> query_type],
                !.matches = matched_photos,
                !.total_photos = Len(matched_photos),
                !.message = message]

\* find_photos; selfie_path and text_query are "" when not given, provided
\* is what the embedding provider returns for the selfie or the text
find_photos(idx, md, selfie_path, text_query, provided, similarity_threshold, max_results) ==
    IF selfie_path = "" /\ text_query = ""
    THEN [EmptyResult EXCEPT
             !.message = "Please provide either a selfie or a text description."]
    ELSE IF selfie_path # "" /\ text_query # ""
    THEN [EmptyResult EXCEPT
             !.message = "Please provide only one: selfie OR text description."]
    ELSE IF text_query = "" /\ provided.isNone
    THEN [EmptyResult EXCEPT
             !.message = "No face detected in selfie or multiple faces found."]
    ELSE
    LET query_type == IF text_query # "" THEN "text" ELSE "face"
        res == [EmptyResult EXCEPT !.query_info = [query_type |-> query_type]]
        s == search_with_threshold(idx, md, provided.embedding,
                                   similarity_threshold, max_results)
        matches == s.results
    IN  IF s.raised # "" THEN Raised(s.raised)
        ELSE IF Len(matches) = 0
        THEN [res EXCEPT !.message = "No confident matches found. Try lowering the threshold."]
        ELSE IF MissingMetadata(matches) THEN Raised("TypeError")
        ELSE IF IndexMode(md) = "full_image"
        THEN Found(res, query_type, SortPhotos(WrappedPhotos(matches)),
                   "Found photos matching your query")
        ELSE Found(res, query_type, SortPhotos(GroupedPhotos(matches)),
                   "Found photos matching your query")

\* find_photos_by_embedding without the early return on len(matches) == 0
find_photos_by_embedding_NoEarlyReturn(idx, md, query_embedding, similarity_threshold, max_results) ==
    LET s == search_with_threshold(idx, md, query_embedding,
                                   similarity_threshold, max_results)
    IN  IF idx.isNone THEN Raised("AttributeError")
        ELSE IF s.raised # "" THEN Raised(s.raised)
        ELSE IF MissingMetadata(s.results) THEN Raised("TypeError")
        ELSE Found(EmptyResult, "registered_person",
                   SortPhotos(GroupedPhotos(s.results)),
                   "Found event photo(s) containing this person")

find_photos_by_embedding(idx, md, query_embedding, similarity_threshold, max_results) ==
    LET res == [EmptyResult EXCEPT !.query_info = [query_type |-> "registered_person"]]
        s == search_with_threshold(idx, md, query_embedding,
                                   similarity_threshold, max_results)
        matches == s.results
    IN  IF idx.isNone THEN Raised("AttributeError")
        ELSE IF s.raised # "" THEN Raised(s.raised)
        ELSE IF Len(matches) = 0
        THEN [res EXCEPT !.message = "No photos found for this person. Try lowering the threshold."]
        ELSE IF MissingMetadata(matches) THEN Raised("TypeError")
        ELSE Found(res, "registered_person", SortPhotos(GroupedPhotos(matches)),
                   "Found event photo(s) containing this person")

---------------------------------------------------------------------------
(* the offline build: src/src/offline_indexing.py *)

\* the photos of the event directory, in listing order
EventPhotos == <<"a.jpg", "b.jpg", "c.jpg">>

\* the most records one build indexes in this model
MaxRecords == 3

\* the embeddings the provider returns for event photos
PhotoEmbeddings == {E1, E2, E4}

\* the loop with the embeddings appended as they are computed, before the
\* image is known to have been processed: an image that raises leaves its
\* embeddings behind, without records
RECURSIVE CollectImages_AppendingEarly(_, _, _, _)
CollectImages_AppendingEarly(image_paths, mode, detections, n) ==
    IF n = 0 THEN [all_embeddings |-> <<>>, all_metadata |-> <<>>]
    ELSE
    LET acc == CollectImages_AppendingEarly(image_paths, mode, detections, n - 1)
        d == detections[n]
        item_id == Len(acc.all_metadata)
    IN  IF d.error
        THEN [all_embeddings |-> acc.all_embeddings \o d.embeddings,
              all_metadata |-> acc.all_metadata]
        ELSE [all_embeddings |-> acc.all_embeddings \o d.embeddings,
              all_metadata |-> acc.all_metadata \o
                  [f \in 1..Len(d.embeddings) |->
                      [item_id |-> item_id + f - 1,
                       image_path |-> image_paths[n],
                       mode |-> mode]]]

\* what one pass of the loop adds for image i: nothing when processing raised,
\* else one record per embedding the provider returned
RECURSIVE CollectImages(_, _, _, _)
CollectImages(image_paths, mode, detections, n) ==
    IF n = 0 THEN [all_embeddings |-> <<>>, all_metadata |-> <<>>]
    ELSE
    LET acc == CollectImages(image_paths, mode, detections, n - 1)
        d == detections[n]
        item_id == Len(acc.all_metadata)
    IN  IF d.error THEN acc
        ELSE [all_embeddings |-> acc.all_embeddings \o d.embeddings,
              all_metadata |-> acc.all_metadata \o
                  [f \in 1..Len(d.embeddings) |->
                      [item_id |-> item_id + f - 1,
                       image_path |-> image_paths[n],
                       mode |-> mode]]]

\* process_event_photos up to the point where the index is built
process_event_photos(image_paths, mode, detections) ==
    CollectImages(image_paths, mode, detections, Len(image_paths))

\* the provider's answers for n photos, given as the flat list of (photo,
\* embedding) pairs in photo order: full_image mode embeds each photo once or
\* fails on it, face mode finds any number of faces in it or fails on it
Detections(n, mode, flat, failed) ==
    [i \in 1..n |->
        [error |-> i \in failed,
         embeddings |->
             LET at == {k \in 1..Len(flat) : flat[k][1] = i}
                 Pos(r) == CHOOSE k \in at : Cardinality({j \in at : j < k}) = r - 1
             IN  [r \in 1..Cardinality(at) |-> flat[Pos(r)][2]]]]

FlatLists(n, mode) ==
    {flat \in UNION {[1..m -> (1..n) \X PhotoEmbeddings] : m \in 0..MaxRecords} :
        \A k \in 1..(Len(flat) - 1) :
            IF mode = "full_image"
            THEN flat[k][1] < flat[k + 1][1]
            ELSE flat[k][1] <= flat[k + 1][1]}

Unanswered(n, flat) == {i \in 1..n : \A k \in 1..Len(flat) : flat[k][1] # i}

NoFile == [exists |-> FALSE, content |-> <<>>]

\* the command line run of the offline build, before the query sessions; one
\* build per behaviour (a rebuild reaches no index contents a first build
\* does not)
OfflineIndexing ==
    /\ index.isNone
    /\ ~indexFile.exists
    /\ \E n \in 0..Len(EventPhotos), mode \in {"full_image", "face"} :
       \E flat \in FlatLists(n, mode) :
       \E failed \in (IF mode = "full_image"
                      THEN {Unanswered(n, flat)}
                      ELSE SUBSET Unanswered(n, flat)) :
          LET image_paths == SubSeq(EventPhotos, 1, n)
              built == process_event_photos(image_paths, mode,
                                            Detections(n, mode, flat, failed))
          IN  IF Len(image_paths) = 0 \/ Len(built.all_embeddings) = 0
              THEN UNCHANGED <<indexFile, metadataFile>>
              ELSE /\ indexFile' = [exists |-> TRUE, content |-> built.all_embeddings]
                   /\ metadataFile' = save_metadata(built.all_metadata)
    /\ call' = [op |-> "process_event_photos"]
    /\ result' = EmptyResult
    /\ UNCHANGED <<index, metadata, profileVars>>

---------------------------------------------------------------------------
(* a query session: a search button of src/app.py builds a PhotoRetriever,  *)
(* asks it one query and reruns the page                                   *)

QueryEmbeddings == {E1, E5}
Thresholds == {-One, One \div 2, One}
MaxResultsChoices == {1, 2, DefaultMaxResults}
NoEmbedding == [isNone |-> TRUE, embedding |-> <<0, 0>>]
Provided == {NoEmbedding} \cup {[isNone |-> FALSE, embedding |-> e] : e \in QueryEmbeddings}

\* PhotoRetriever.__init__: load_index, then load_metadata
PhotoRetrieverInit ==
    /\ index.isNone
    /\ call' = [op |-> "PhotoRetriever"]
    /\ IF ~indexFile.exists \/ ~metadataFile.exists
       THEN /\ result' = Raised("FileNotFoundError")
            /\ UNCHANGED <<index, metadata>>
       ELSE /\ index' = [isNone |-> FALSE, xb |-> indexFile.content]
            /\ metadata' = load_metadata(metadataFile)
            /\ result' = EmptyResult
    /\ UNCHANGED <<indexFile, metadataFile, profileVars>>

\* the last call was a retrieval call: the one that comes now is a later one
\* of the same retriever or manager
Later ==
    call.op \in {"find_photos", "find_photos_by_embedding",
                 "search_with_threshold", "search"}

\* the retriever main has just built, about to serve its query
Ready == ~index.isNone /\ call.op = "PhotoRetriever"

\* retriever.find_photos(...) with any arguments
FindPhotosCall ==
    /\ \E selfie_path \in {"", "selfie.jpg"}, text_query \in {"", "a beach"},
          provided \in Provided, t \in Thresholds, k \in MaxResultsChoices :
          /\ text_query # "" => ~provided.isNone
          /\ selfie_path = "" /\ text_query = "" => provided.isNone
          /\ call' = [op |-> "find_photos", selfie_path |-> selfie_path,
                      text_query |-> text_query, query |-> provided,
                      similarity_threshold |-> t, max_results |-> k,
                      later |-> Later]
          /\ result' = find_photos(index, metadata, selfie_path, text_query,
                                   provided, t, k)
    /\ UNCHANGED <<indexFile, metadataFile, index, metadata, profileVars>>

FindPhotos == Ready /\ FindPhotosCall

\* find_photos_by_embedding that cuts self.index_manager.metadata down to
\* max_results records
FindPhotosByEmbeddingCall_CuttingMetadata ==
    /\ \E e \in QueryEmbeddings, t \in Thresholds, k \in MaxResultsChoices :
          /\ call' = [op |-> "find_photos_by_embedding", selfie_path |-> "",
                      text_query |-> "",
                      query |-> [isNone |-> FALSE, embedding |-> e],
                      similarity_threshold |-> t, max_results |-> k,
                      later |-> Later]
          /\ result' = find_photos_by_embedding(index, metadata, e, t, k)
          /\ metadata' = SubSeq(metadata, 1, IF k < Len(metadata) THEN k
                                              ELSE Len(metadata))
    /\ UNCHANGED <<indexFile, metadataFile, index, profileVars>>

\* retriever.find_photos_by_embedding(...) with any arguments
FindPhotosByEmbeddingCall ==
    /\ \E e \in QueryEmbeddings, t \in Thresholds, k \in MaxResultsChoices :
          /\ call' = [op |-> "find_photos_by_embedding", selfie_path |-> "",
                      text_query |-> "",
                      query |-> [isNone |-> FALSE, embedding |-> e],
                      similarity_threshold |-> t, max_results |-> k,
                      later |-> Later]
          /\ result' = find_photos_by_embedding(index, metadata, e, t, k)
    /\ UNCHANGED <<indexFile, metadataFile, index, metadata, profileVars>>

FindPhotosByEmbedding == Ready /\ FindPhotosByEmbeddingCall

\* a FaissIndexManager of its own that has served no search yet: just
\* constructed, or after create_index or load_index
Fresh == call.op \in {"start", "create_index", "load_index"}

\* index_manager.search_with_threshold(...) with any arguments
SearchWithThresholdCall ==
    /\ \E e \in QueryEmbeddings, t \in Thresholds, k \in MaxResultsChoices :
          LET s == search_with_threshold(index, metadata, e, t, k)
          IN  /\ call' = [op |-> "search_with_threshold", selfie_path |-> "",
                          text_query |-> "",
                          query |-> [isNone |-> FALSE, embedding |-> e],
                          similarity_threshold |-> t, max_results |-> k,
                          later |-> Later]
              /\ result' = [EmptyResult EXCEPT !.raised = s.raised,
                                               !.matches = s.results]
    /\ UNCHANGED <<indexFile, metadataFile, index, metadata, profileVars>>

\* index_manager.search_with_threshold called on its own
SearchWithThreshold == (Ready \/ Fresh) /\ SearchWithThresholdCall

\* the page reruns and the retriever, a local of main, is dropped
EndSession ==
    /\ ~index.isNone
    /\ index' = NoIndex
    /\ metadata' = <<>>
    /\ call' = [op |-> "rerun"]
    /\ result' = EmptyResult
    /\ UNCHANGED <<indexFile, metadataFile, profileVars>>

\* no person_profiles.json yet, and get_profile's None
NoProfilesFile == [exists |-> FALSE, broken |-> FALSE, data |-> <<>>]
NoProfile == [isNone |-> TRUE, name |-> <<>>, embedding |-> <<0, 0>>, selfie_path |-> ""]

\* what a PersonManager call gave back: the result dictionary of
\* register_person, the boolean of remove_person, the profile of get_profile
Reply(success, message, profile) ==
    [raised |-> "", success |-> success, message |-> message,
     profile |-> profile, names |-> <<>>]

Init ==
    /\ indexFile = NoFile
    /\ metadataFile = NoFile
    /\ index = NoIndex
    /\ metadata = <<>>
    /\ call = [op |-> "start"]
    /\ result = EmptyResult
    /\ profiles = <<>>
    /\ profilesFile = NoProfilesFile
    /\ pmCall = [op |-> "PersonManager", name |-> <<>>, selfie_path |-> ""]
    /\ pmResult = Reply(FALSE, "", NoProfile)
    /\ ioErrors = 0
    /\ peerProfiles = <<>>

NextQuery ==
    \/ OfflineIndexing
    \/ PhotoRetrieverInit
    \/ FindPhotos
    \/ FindPhotosByEmbedding
    \/ SearchWithThreshold
    \/ EndSession

SpecQuery == Init /\ [][NextQuery]_vars

---------------------------------------------------------------------------
(* a FaissIndexManager used on its own *)

\* the arrays create_index is given: up to MaxRecords embeddings, none included
EmbeddingArrays == UNION {[1..n -> PhotoEmbeddings] : n \in 0..MaxRecords}

\* embedding_dim of the managers here: the length of the model's embeddings
EmbeddingDim == Len(E1)

\* a vector of one coordinate too many, and the arrays of such vectors
TooLong == <<Unit, 0, 0>>
WrongArrays == UNION {[1..n -> {TooLong}] : n \in 0..2}

\* the 2-D arrays create_index is called with: shape[1] and the rows
CreateArguments ==
    {[shape1 |-> EmbeddingDim, rows |-> e] : e \in EmbeddingArrays}
        \cup {[shape1 |-> Len(TooLong), rows |-> w] : w \in WrongArrays}

\* embeddings.astype('float32'), coordinate by coordinate
astype_float32(rows) ==
    [i \in 1..Len(rows) |-> [j \in 1..Len(rows[i]) |-> RoundF32(rows[i][j])]]

\* create_index that adds to the index the manager holds
create_index_Adding(idx, embeddings) ==
    IF embeddings.shape1 # EmbeddingDim
    THEN [raised |-> "ValueError", index |-> idx]
    ELSE [raised |-> "",
          index |-> [isNone |-> FALSE,
                     xb |-> idx.xb \o astype_float32(embeddings.rows)]]

\* create_index on a manager holding idx: the dimension is checked, then
\* self.index is a new IndexFlatL2 to which the rows are added
create_index(idx, embeddings) ==
    IF embeddings.shape1 # EmbeddingDim
    THEN [raised |-> "ValueError", index |-> idx]
    ELSE [raised |-> "",
          index |-> [isNone |-> FALSE, xb |-> astype_float32(embeddings.rows)]]

\* index_manager.create_index(embeddings): self.metadata is not touched; the
\* call is kept with its argument and with the index the manager held
CreateIndex ==
    /\ Fresh
    /\ \E embeddings \in CreateArguments :
          LET created == create_index(index, embeddings)
          IN  /\ index' = created.index
              /\ result' = Raised(created.raised)
              /\ call' = [op |-> "create_index", embeddings |-> embeddings,
                          held |-> index]
    /\ UNCHANGED <<indexFile, metadataFile, metadata, profileVars>>

\* load_index that drops the index it holds before it looks for the file
load_index_ClearingFirst(idx, file) ==
    IF ~file.exists
    THEN [raised |-> "FileNotFoundError", index |-> NoIndex]
    ELSE [raised |-> "", index |-> [isNone |-> FALSE, xb |-> file.content]]

\* load_index on a manager holding idx: the path is looked for before
\* self.index is assigned
load_index(idx, file) ==
    IF ~file.exists
    THEN [raised |-> "FileNotFoundError", index |-> idx]
    ELSE [raised |-> "", index |-> [isNone |-> FALSE, xb |-> file.content]]

\* index_manager.load_index(index_path)
LoadIndex ==
    /\ Fresh
    /\ call' = [op |-> "load_index"]
    /\ LET loaded == load_index(index, indexFile)
       IN  /\ index' = loaded.index
           /\ result' = Raised(loaded.raised)
    /\ UNCHANGED <<indexFile, metadataFile, metadata, profileVars>>

\* index_manager.search(query_embedding, k) with any arguments: the
\* (distance, index) pairs are kept in result.matches
SearchCall ==
    /\ \E e \in QueryEmbeddings, k \in MaxResultsChoices :
          LET s == search(index, e, k)
          IN  /\ call' = [op |-> "search", selfie_path |-> "",
                          text_query |-> "",
                          query |-> [isNone |-> FALSE, embedding |-> e],
                          similarity_threshold |-> -One, max_results |-> k,
                          later |-> Later]
              /\ result' = [EmptyResult EXCEPT !.raised = s.raised,
                                               !.matches = s.found]
    /\ UNCHANGED <<indexFile, metadataFile, index, metadata, profileVars>>

Search == Fresh /\ SearchCall

NextIndex ==
    \/ CreateIndex
    \/ LoadIndex
    \/ Search
    \/ SearchWithThreshold

SpecIndex == Init /\ [][NextIndex]_vars

---------------------------------------------------------------------------
(* the offline build followed image by image *)

\* what the provider does with one image: full_image mode embeds it or
\* raises; face mode returns the faces it found, or raises after it has
\* embedded some of them (detect_faces then returns nothing)
ImageOutcomes(mode) ==
    IF mode = "full_image"
    THEN {[error |-> FALSE, embeddings |-> <<e>>] : e \in PhotoEmbeddings}
             \cup {[error |-> TRUE, embeddings |-> <<>>]}
    ELSE {[error |-> FALSE, embeddings |-> es] :
             es \in UNION {[1..m -> PhotoEmbeddings] : m \in 0..MaxRecords}}
             \cup {[error |-> TRUE, embeddings |-> es] :
                      es \in UNION {[1..m -> PhotoEmbeddings] : m \in 0..1}}

\* all_embeddings and all_metadata after the images processed so far
Collected ==
    CollectImages(call.image_paths, call.mode, call.detections,
                  Len(call.detections))

\* process_event_photos has listed the images and enters the loop
BuildStart ==
    /\ call.op = "start"
    /\ \E n \in 0..Len(EventPhotos), mode \in {"full_image", "face"} :
          call' = [op |-> "loop", mode |-> mode,
                   image_paths |-> SubSeq(EventPhotos, 1, n),
                   detections |-> <<>>]
    /\ result' = EmptyResult
    /\ UNCHANGED <<indexFile, metadataFile, index, metadata, profileVars>>

\* one pass of the loop over image_paths
ProcessImage ==
    /\ call.op = "loop"
    /\ Len(call.image_paths) # 0
    /\ Len(call.detections) < Len(call.image_paths)
    /\ \E d \in ImageOutcomes(call.mode) :
          /\ Len(Collected.all_embeddings) + Len(d.embeddings) <= MaxRecords
          /\ call' = [call EXCEPT !.detections = Append(@, d)]
    /\ UNCHANGED <<indexFile, metadataFile, index, metadata, result, profileVars>>

\* after the loop: the early returns, or the index is created and the two
\* files are written
BuildEnd ==
    /\ call.op = "loop"
    /\ Len(call.detections) = Len(call.image_paths)
    /\ IF Len(call.image_paths) = 0 \/ Len(Collected.all_embeddings) = 0
       THEN UNCHANGED <<indexFile, metadataFile>>
       ELSE /\ indexFile' = [exists |-> TRUE,
                             content |-> create_index(NoIndex,
                                 [shape1 |-> EmbeddingDim,
                                  rows |-> Collected.all_embeddings]).index.xb]
            /\ metadataFile' = save_metadata(Collected.all_metadata)
    /\ call' = [op |-> "process_event_photos"]
    /\ result' = EmptyResult
    /\ UNCHANGED <<index, metadata, profileVars>>

NextBuild ==
    \/ BuildStart
    \/ ProcessImage
    \/ BuildEnd

SpecBuild == Init /\ [][NextBuild]_vars

---------------------------------------------------------------------------
(* a rebuild that is stopped between its two file writes *)

\* everything a run of process_event_photos can collect
Builds ==
    UNION {UNION {{process_event_photos(SubSeq(EventPhotos, 1, n), mode,
                                        Detections(n, mode, flat, failed)) :
                      failed \in (IF mode = "full_image"
                                  THEN {Unanswered(n, flat)}
                                  ELSE SUBSET Unanswered(n, flat))} :
                  flat \in FlatLists(n, mode)} :
           <<n, mode>> \in (0..Len(EventPhotos)) \X {"full_image", "face"}}

\* a second run of the offline build over the same output directory that is
\* stopped after save_index and before save_metadata: the new faiss.index
\* lies next to the metadata.json of the first run
InterruptedRebuild ==
    /\ index.isNone
    /\ indexFile.exists /\ metadataFile.exists
    /\ call.op = "process_event_photos"
    /\ \E built \in Builds :
          /\ Len(built.all_embeddings) # 0
          /\ indexFile' = [exists |-> TRUE, content |-> built.all_embeddings]
    /\ call' = [op |-> "save_index"]
    /\ result' = EmptyResult
    /\ UNCHANGED <<metadataFile, index, metadata, profileVars>>

NextRebuild ==
    \/ OfflineIndexing
    \/ InterruptedRebuild
    \/ PhotoRetrieverInit
    \/ FindPhotos
    \/ FindPhotosByEmbedding
    \/ SearchWithThreshold
    \/ EndSession

SpecRebuild == Init /\ [][NextRebuild]_vars

---------------------------------------------------------------------------
(* one retriever that serves any number of calls, as a script using        *)
(* PhotoRetriever does                                                     *)

\* the most records of the index the retriever has loaded here, and the most
\* photos of the event directory
MaxSessionRecords == 2
MaxSessionPhotos == 2

\* the builds of at most that many records from that many photos
SessionBuilds ==
    {built \in Builds :
        /\ Len(built.all_embeddings) \in 1..MaxSessionRecords
        /\ \A i \in 1..Len(built.all_metadata) :
              \E j \in 1..MaxSessionPhotos :
                 j <= Len(EventPhotos)
                     /\ built.all_metadata[i].image_path = EventPhotos[j]}

\* PhotoRetriever(index_path, metadata_path) has loaded the files of a build
InitSession ==
    /\ \E built \in SessionBuilds :
          /\ indexFile = [exists |-> TRUE, content |-> built.all_embeddings]
          /\ metadataFile = save_metadata(built.all_metadata)
          /\ index = load_index(NoIndex, indexFile).index
          /\ metadata = load_metadata(metadataFile)
    /\ call = [op |-> "PhotoRetriever"]
    /\ result = EmptyResult
    /\ profiles = <<>>
    /\ profilesFile = NoProfilesFile
    /\ pmCall = [op |-> "PersonManager", name |-> <<>>, selfie_path |-> ""]
    /\ pmResult = Reply(FALSE, "", NoProfile)
    /\ ioErrors = 0
    /\ peerProfiles = <<>>

\* the retriever is loaded and has served no call yet, or one: a session is
\* followed for two calls
Serving ==
    /\ ~index.isNone
    /\ call.op # "start"
    /\ Later => ~call.later

FindPhotosAgain == Serving /\ FindPhotosCall
FindPhotosByEmbeddingAgain == Serving /\ FindPhotosByEmbeddingCall
SearchWithThresholdAgain == Serving /\ SearchWithThresholdCall
SearchAgain == Serving /\ SearchCall

NextSession ==
    \/ FindPhotosAgain
    \/ FindPhotosByEmbeddingAgain
    \/ SearchWithThresholdAgain
    \/ SearchAgain

SpecSession == InitSession /\ [][NextSession]_vars

---------------------------------------------------------------------------
(* the distance of two embeddings turned into a similarity, next to their  *)
(* dot product                                                             *)

\* FaceProcessor.compute_similarity: float(np.dot(embedding1, embedding2)),
\* in similarity ticks
compute_similarity(embedding1, embedding2) ==
    2 * RoundF32(RoundF32(embedding1[1] * embedding2[1])
                     + RoundF32(embedding1[2] * embedding2[2]))

\* the squared norm of an embedding, in ticks of 2^-26
SquaredNorm(e) == e[1] * e[1] + e[2] * e[2]

\* normalised embeddings: the four of norm exactly 1, and those on the grid
\* whose squared norm is 1 - 1239 * 2^-26, which is 1 up to float32 rounding
\* of the coordinates
GridNorm == Unit * Unit - 1239
GridCoordinates == {284, 8187, 912, 8141, 5765, 5820}
AxisEmbeddings ==
    {e \in {Unit, -Unit, 0} \X {Unit, -Unit, 0} : SquaredNorm(e) = Unit * Unit}
GridEmbeddings ==
    {e \in {<<sx * x, sy * y>> :
                <<sx, sy, x, y>> \in {1, -1} \X {1, -1}
                                         \X GridCoordinates \X GridCoordinates} :
        SquaredNorm(e) = GridNorm}
NormalisedEmbeddings == AxisEmbeddings \cup GridEmbeddings

\* an index of the one vector embedding2 is searched for embedding1 at the
\* lowest threshold, and compute_similarity is asked about the same two
CompareSimilarity ==
    /\ call.op = "start"
    /\ \E embedding1, embedding2 \in NormalisedEmbeddings :
          LET s == search_with_threshold(
                       create_index(NoIndex, [shape1 |-> EmbeddingDim,
                                              rows |-> <<embedding2>>]).index,
                       <<>>, embedding1, -One, 1)
          IN  /\ SquaredNorm(embedding1) = SquaredNorm(embedding2)
              /\ call' = [op |-> "compute_similarity",
                          embedding1 |-> embedding1, embedding2 |-> embedding2]
              /\ result' = [EmptyResult EXCEPT
                                !.raised = s.raised,
                                !.matches = s.results,
                                !.total_photos =
                                    compute_similarity(embedding1, embedding2)]
    /\ UNCHANGED <<indexFile, metadataFile, index, metadata, profileVars>>

SpecSimilarity == Init /\ [][CompareSimilarity]_vars

---------------------------------------------------------------------------
(* PersonManager: src/src/person_manager.py *)
(* A name is the sequence of its characters.                               *)

\* str.lower on one character of the model's alphabet
LowerChar(c) ==
    CASE c = "A" -> "a"
      [] c = "B" -> "b"
      [] c = "N" -> "n"
      [] OTHER -> c

\* str.lower
lower(name) == [i \in 1..Len(name) |-> LowerChar(name[i])]

\* str.strip
RECURSIVE lstrip(_)
lstrip(name) ==
    IF name # <<>> /\ Head(name) = " " THEN lstrip(Tail(name)) ELSE name

RECURSIVE rstrip(_)
rstrip(name) ==
    IF name # <<>> /\ name[Len(name)] = " "
    THEN rstrip(SubSeq(name, 1, Len(name) - 1)) ELSE name

strip(name) == rstrip(lstrip(name))

Ann == <<"A", "n", "n">>
ann == <<"a", "n", "n">>
ANN == <<"A", "N", "N">>
PaddedAnn == <<" ", "a", "n", "n", " ">>
Bob == <<"B", "o", "b">>
bob == <<"b", "o", "b">>
Blank == <<" ", " ">>

\* the names typed into the registration form, and those looked up
RegisterNames == {Ann, ann, PaddedAnn, Bob, <<>>, Blank}
LookupNames == {Ann, ann, ANN, PaddedAnn, Bob, bob}

\* the selfie files: what os.path.exists and the face detector say of each
SelfiePaths == {"s1.jpg", "group.jpg", "nobody.jpg", "broken.jpg", "gone.jpg"}
PathExists(selfie_path) == selfie_path # "gone.jpg"

\* cv2.imread gives None for a file that is no image, and detect_faces raises
ImageReadable(selfie_path) == selfie_path \notin {"broken.jpg", "gone.jpg"}

\* detect_faces(image_path): one entry for each face the detector reports, in
\* the detector's order, with its box [x1, y1, x2, y2] and the embedding of
\* the crop; group.jpg shows a small face and then a large one
detect_faces(image_path) ==
    CASE image_path = "s1.jpg" ->
             <<[bbox |-> <<20, 20, 120, 140>>, embedding |-> E1]>>
      [] image_path = "s2.jpg" ->
             <<[bbox |-> <<30, 10, 130, 130>>, embedding |-> E3]>>
      [] image_path = "group.jpg" ->
             <<[bbox |-> <<10, 10, 50, 60>>, embedding |-> E1],
               [bbox |-> <<80, 20, 200, 170>>, embedding |-> E3]>>
      [] OTHER -> <<>>

\* the sort key (x['bbox'][2] - x['bbox'][0]) * (x['bbox'][3] - x['bbox'][1])
BBoxArea(x) == (x.bbox[3] - x.bbox[1]) * (x.bbox[4] - x.bbox[2])

\* faces.sort(key=..., reverse=True): the largest box first, faces of equal
\* area in the order they had
RECURSIVE InsertFace(_, _)
InsertFace(sorted, x) ==
    IF sorted = <<>> THEN <<x>>
    ELSE IF BBoxArea(Head(sorted)) >= BBoxArea(x)
    THEN <<Head(sorted)>> \o InsertFace(Tail(sorted), x)
    ELSE <<x>> \o sorted

RECURSIVE SortFaces(_)
SortFaces(faces) ==
    IF faces = <<>> THEN <<>>
    ELSE InsertFace(SortFaces(SubSeq(faces, 1, Len(faces) - 1)), faces[Len(faces)])

\* extract_single_face_embedding(image_path) for a readable image: None when
\* no face is detected, otherwise the embedding of the first face, after the
\* faces are sorted by area when there are several
extract_single_face_embedding(image_path) ==
    LET faces == detect_faces(image_path)
    IN  IF Len(faces) = 0
        THEN [isNone |-> TRUE, embedding |-> <<0, 0>>]
        ELSE [isNone |-> FALSE,
              embedding |-> (IF Len(faces) > 1 THEN SortFaces(faces) ELSE faces)[1].embedding]

\* extract_single_face_embedding(selfie_path) as seen by register_person: an
\* embedding, None, or an exception
SelfieOutcome(selfie_path) ==
    IF ~ImageReadable(selfie_path)
    THEN [kind |-> "error", embedding |-> <<0, 0>>]
    ELSE LET face == extract_single_face_embedding(selfie_path)
         IN  IF face.isNone
             THEN [kind |-> "none", embedding |-> <<0, 0>>]
             ELSE [kind |-> "embedding", embedding |-> face.embedding]

HasKey(d, name) == \E i \in 1..Len(d) : d[i].name = name

\* self.profiles[name] = {...}: a present key keeps its place in the dict, a
\* new key goes to the end
SetItem(d, name, embedding, selfie_path) ==
    LET entry == [name |-> name, embedding |-> embedding, selfie_path |-> selfie_path]
    IN  IF HasKey(d, name)
        THEN [i \in 1..Len(d) |-> IF d[i].name = name THEN entry ELSE d[i]]
        ELSE Append(d, entry)

\* self.profiles.clear() in the place of del self.profiles[name]
DelItem_Clearing(d, name) == SelectSeq(d, LAMBDA e : FALSE)

\* del self.profiles[name]
DelItem(d, name) == SelectSeq(d, LAMBDA e : e.name # name)

\* the key register_person stores the profile under
ProfileKey(name) == strip(name)

\* ndarray.tolist and np.array: a float32 becomes a Python float and json
\* writes the float with repr, which reads back as the same binary64; binary64
\* holds every binary32, so no coordinate changes its value
tolist(embedding) == [i \in 1..Len(embedding) |-> embedding[i]]
np_array(list) == [i \in 1..Len(list) |-> list[i]]

\* save_profiles builds data, name by name, in the order of self.profiles
RECURSIVE DumpProfiles(_, _)
DumpProfiles(d, n) ==
    IF n = 0 THEN <<>>
    ELSE SetItem(DumpProfiles(d, n - 1), d[n].name, tolist(d[n].embedding),
                 d[n].selfie_path)

\* person_profiles.json after a save_profiles that went through
SavedFile(d) == [exists |-> TRUE, broken |-> FALSE, data |-> DumpProfiles(d, Len(d))]

\* how a call of save_profiles can end: the file is rewritten; makedirs or
\* open raises and the file is as it was; the write raises after open has
\* truncated the file, which is then no JSON document
SaveOutcomes == {"saved", "not opened", "cut short"}

\* the most writes of person_profiles.json that fail in one behaviour
MaxIoErrors == 1

save_profiles(d, file, outcome) ==
    CASE outcome = "saved" -> [raised |-> "", file |-> SavedFile(d)]
      [] outcome = "not opened" -> [raised |-> "OSError", file |-> file]
      [] OTHER -> [raised |-> "OSError",
                   file |-> [exists |-> TRUE, broken |-> TRUE, data |-> <<>>]]

\* the loop of load_profiles over data.items(), filling the dict it is given
RECURSIVE ReadProfiles(_, _, _)
ReadProfiles(into, data, n) ==
    IF n = 0 THEN into
    ELSE SetItem(ReadProfiles(into, data, n - 1), data[n].name,
                 np_array(data[n].embedding), data[n].selfie_path)

\* load_profiles without self.profiles = {}: the file is read into what the
\* manager holds
load_profiles_Merging(d, file) ==
    IF file.exists /\ file.broken
    THEN [raised |-> "JSONDecodeError", profiles |-> d]
    ELSE [raised |-> "",
          profiles |-> ReadProfiles(d, file.data, Len(file.data))]

\* load_profiles on a manager holding d: json.load raises on a broken file
\* before self.profiles is touched
load_profiles(d, file) ==
    IF ~file.exists THEN [raised |-> "", profiles |-> <<>>]
    ELSE IF file.broken THEN [raised |-> "JSONDecodeError", profiles |-> d]
    ELSE [raised |-> "",
          profiles |-> ReadProfiles(<<>>, file.data, Len(file.data))]

\* register_person: the reply, the profiles and the file afterwards, and
\* whether save_profiles raised; the profile is stored before save_profiles
\* is called, and except Exception turns what save_profiles raises into a
\* reply
register_person(d, file, name, selfie_path, outcome) ==
    LET key == ProfileKey(name)
        face == SelfieOutcome(selfie_path)
        Fail(message) == [ret |-> [success |-> FALSE, message |-> message],
                          profiles |-> d, file |-> file, io_error |-> FALSE]
        stored == SetItem(d, key, face.embedding, selfie_path)
        saved == save_profiles(stored, file, outcome)
    IN  IF key = <<>> THEN Fail("Please enter a name")
        ELSE IF ~PathExists(selfie_path) THEN Fail("Selfie file not found")
        ELSE IF face.kind = "error" THEN Fail("Error processing selfie")
        ELSE IF face.kind = "none" THEN Fail("No face detected in selfie.")
        ELSE IF saved.raised # ""
        THEN [ret |-> [success |-> FALSE, message |-> "Error processing selfie"],
              profiles |-> stored, file |-> saved.file, io_error |-> TRUE]
        ELSE [ret |-> [success |-> TRUE, message |-> "Successfully registered"],
              profiles |-> stored, file |-> saved.file, io_error |-> FALSE]

\* the name comparison of get_profile and get_person_embedding
NameMatches(stored_name, name) == lower(stored_name) = lower(name)

\* get_profile: the first stored profile whose name matches
get_profile(d, name) ==
    IF \E i \in 1..Len(d) : NameMatches(d[i].name, name)
    THEN LET first == CHOOSE i \in 1..Len(d) :
                 /\ NameMatches(d[i].name, name)
                 /\ \A j \in 1..(i - 1) : ~NameMatches(d[j].name, name)
         IN  [isNone |-> FALSE, name |-> d[first].name,
              embedding |-> d[first].embedding,
              selfie_path |-> d[first].selfie_path]
    ELSE NoProfile

\* get_person_embedding: the same search, returning the embedding alone
get_person_embedding(d, name) ==
    LET found == get_profile(d, name)
    IN  [isNone |-> found.isNone, embedding |-> found.embedding]

\* ord() of the characters of the model's alphabet
Ord(c) ==
    CASE c = " " -> 32
      [] c = "A" -> 65
      [] c = "B" -> 66
      [] c = "N" -> 78
      [] c = "a" -> 97
      [] c = "b" -> 98
      [] c = "n" -> 110
      [] OTHER -> 111

\* str < str: the first differing character decides, a proper prefix is less
RECURSIVE StrLess(_, _)
StrLess(a, b) ==
    IF b = <<>> THEN FALSE
    ELSE IF a = <<>> THEN TRUE
    ELSE IF Head(a) # Head(b) THEN Ord(Head(a)) < Ord(Head(b))
    ELSE StrLess(Tail(a), Tail(b))

\* sorted with key = str.lower
RECURSIVE InsertNameIgnoringCase(_, _)
InsertNameIgnoringCase(sorted, name) ==
    IF sorted = <<>> THEN <<name>>
    ELSE IF StrLess(lower(name), lower(Head(sorted))) THEN <<name>> \o sorted
    ELSE <<Head(sorted)>> \o InsertNameIgnoringCase(Tail(sorted), name)

\* sorted is stable: a name goes behind every name that is not greater
RECURSIVE InsertName(_, _)
InsertName(sorted, name) ==
    IF sorted = <<>> THEN <<name>>
    ELSE IF StrLess(name, Head(sorted)) THEN <<name>> \o sorted
    ELSE <<Head(sorted)>> \o InsertName(Tail(sorted), name)

\* get_all_names: sorted(list(self.profiles.keys()))
RECURSIVE get_all_names(_, _)
get_all_names(d, n) ==
    IF n = 0 THEN <<>> ELSE InsertName(get_all_names(d, n - 1), d[n].name)

\* remove_person with the case-insensitive comparison of get_profile
remove_person_IgnoringCase(d, name) ==
    IF \E i \in 1..Len(d) : NameMatches(d[i].name, name)
    THEN [ret |-> TRUE,
          profiles |-> SelectSeq(d, LAMBDA e : ~NameMatches(e.name, name)),
          saved |-> TRUE]
    ELSE [ret |-> FALSE, profiles |-> d, saved |-> FALSE]

\* remove_person: the return value and the profiles afterwards; the calls
\* that return are followed (a save_profiles that raises here leaves
\* remove_person as that exception)
remove_person(d, name) ==
    IF HasKey(d, name)
    THEN [ret |-> TRUE, profiles |-> DelItem(d, name), saved |-> TRUE]
    ELSE [ret |-> FALSE, profiles |-> d, saved |-> FALSE]

\* PersonManager(profiles_path): self.profiles = {}, then load_profiles
PersonManagerInit ==
    LET loaded == load_profiles(<<>>, profilesFile)
    IN  /\ profiles' = loaded.profiles
        /\ pmCall' = [op |-> "PersonManager", name |-> <<>>, selfie_path |-> ""]
        /\ pmResult' = [Reply(FALSE, "", NoProfile) EXCEPT !.raised = loaded.raised]
        /\ UNCHANGED <<profilesFile, ioErrors, peerProfiles, queryVars>>

\* main has a person manager unless PersonManager(profiles_path) raised
ManagerExists == ~(pmCall.op = "PersonManager" /\ pmResult.raised # "")

\* the ways save_profiles can end in a call that gets as far as saving
SaveOutcomesOf(name, selfie_path) ==
    IF ~register_person(profiles, profilesFile, name, selfie_path, "saved").ret.success
    THEN {"saved"}
    ELSE IF ioErrors < MaxIoErrors THEN SaveOutcomes ELSE {"saved"}

RegisterPerson ==
    /\ ManagerExists
    /\ \E name \in RegisterNames, selfie_path \in SelfiePaths :
       \E outcome \in SaveOutcomesOf(name, selfie_path) :
          LET r == register_person(profiles, profilesFile, name, selfie_path,
                                   outcome)
          IN  /\ profiles' = r.profiles
              /\ profilesFile' = r.file
              /\ ioErrors' = IF r.io_error THEN ioErrors + 1 ELSE ioErrors
              /\ pmCall' = [op |-> "register_person", name |-> name,
                            selfie_path |-> selfie_path]
              /\ pmResult' = Reply(r.ret.success, r.ret.message, NoProfile)
    /\ UNCHANGED <<peerProfiles, queryVars>>

RemovePerson ==
    /\ ManagerExists
    /\ \E name \in LookupNames :
          LET r == remove_person(profiles, name)
          IN  /\ profiles' = r.profiles
              /\ profilesFile' = IF r.saved THEN SavedFile(r.profiles)
                                 ELSE profilesFile
              /\ pmCall' = [op |-> "remove_person", name |-> name,
                            selfie_path |-> ""]
              /\ pmResult' = Reply(r.ret, "", NoProfile)
    /\ UNCHANGED <<ioErrors, peerProfiles, queryVars>>

GetProfile ==
    /\ ManagerExists
    /\ \E name \in LookupNames :
          /\ pmCall' = [op |-> "get_profile", name |-> name, selfie_path |-> ""]
          /\ pmResult' = Reply(~get_profile(profiles, name).isNone, "",
                               get_profile(profiles, name))
    /\ UNCHANGED <<profiles, profilesFile, ioErrors, peerProfiles, queryVars>>

GetAllNames ==
    /\ ManagerExists
    /\ pmCall' = [op |-> "get_all_names", name |-> <<>>, selfie_path |-> ""]
    /\ pmResult' = [Reply(TRUE, "", NoProfile) EXCEPT
                       !.names = get_all_names(profiles, Len(profiles))]
    /\ UNCHANGED <<profiles, profilesFile, ioErrors, peerProfiles, queryVars>>

NextProfiles ==
    \/ PersonManagerInit
    \/ RegisterPerson
    \/ RemovePerson
    \/ GetProfile
    \/ GetAllNames

SpecProfiles == Init /\ [][NextProfiles]_vars

---------------------------------------------------------------------------
(* two script runs of src/app.py at once (two browser sessions): each has  *)
(* built its own PersonManager on the same person_profiles.json            *)

\* what the users of the two runs type and upload
WriterNames == {Ann, Bob}
WriterSelfies == {"s1.jpg", "s2.jpg"}

\* self.profiles of the manager of run m
Held(m) == IF m = 1 THEN profiles ELSE peerProfiles

\* the keys of a dict
Keys(d) == {d[i].name : i \in 1..Len(d)}

\* run m gets as far as person_manager = PersonManager(profiles_path)
WriterInit(m) ==
    LET loaded == load_profiles(<<>>, profilesFile)
    IN  /\ IF m = 1
           THEN profiles' = loaded.profiles /\ UNCHANGED peerProfiles
           ELSE peerProfiles' = loaded.profiles /\ UNCHANGED profiles
        /\ pmCall' = [op |-> "PersonManager", name |-> <<>>, selfie_path |-> "",
                      manager |-> m, erased |-> {}]
        /\ pmResult' = [Reply(FALSE, "", NoProfile) EXCEPT !.raised = loaded.raised]
        /\ UNCHANGED <<profilesFile, ioErrors, queryVars>>

\* run m calls person_manager.register_person(person_name, selfie_path); the
\* call is kept with the keys its write took out of the file
WriterRegister(m) ==
    /\ \E name \in WriterNames, selfie_path \in WriterSelfies :
          LET r == register_person(Held(m), profilesFile, name, selfie_path,
                                   "saved")
          IN  /\ IF m = 1
                 THEN profiles' = r.profiles /\ UNCHANGED peerProfiles
                 ELSE peerProfiles' = r.profiles /\ UNCHANGED profiles
              /\ profilesFile' = r.file
              /\ pmCall' = [op |-> "register_person", name |-> name,
                            selfie_path |-> selfie_path, manager |-> m,
                            erased |-> Keys(profilesFile.data) \ Keys(r.file.data)]
              /\ pmResult' = Reply(r.ret.success, r.ret.message, NoProfile)
    /\ UNCHANGED <<ioErrors, queryVars>>

\* the manager of run m is asked to remove a person
WriterRemove(m) ==
    /\ \E name \in WriterNames :
          LET r == remove_person(Held(m), name)
              file == IF r.saved THEN SavedFile(r.profiles) ELSE profilesFile
          IN  /\ IF m = 1
                 THEN profiles' = r.profiles /\ UNCHANGED peerProfiles
                 ELSE peerProfiles' = r.profiles /\ UNCHANGED profiles
              /\ profilesFile' = file
              /\ pmCall' = [op |-> "remove_person", name |-> name,
                            selfie_path |-> "", manager |-> m,
                            erased |-> Keys(profilesFile.data) \ Keys(file.data)]
              /\ pmResult' = Reply(r.ret, "", NoProfile)
    /\ UNCHANGED <<ioErrors, queryVars>>

NextWriters ==
    \E m \in {1, 2} :
        \/ WriterInit(m)
        \/ WriterRegister(m)
        \/ WriterRemove(m)

SpecWriters == Init /\ [][NextWriters]_vars

---------------------------------------------------------------------------
(* the two stores saved and loaded on their own: a manager holding any     *)
(* store state, next to a file another manager may have written            *)

\* the most profiles a store starts with here
MaxProfiles == 2

\* the keys register_person can store, and what it stores under a key
ProfileKeys == {ProfileKey(name) : name \in RegisterNames} \ {<<>>}
ProfileEntries ==
    {[name |-> key, embedding |-> SelfieOutcome(selfie_path).embedding,
      selfie_path |-> selfie_path] :
        <<key, selfie_path>> \in
            ProfileKeys \X {p \in SelfiePaths :
                               PathExists(p) /\ SelfieOutcome(p).kind = "embedding"}}

\* the dicts of up to MaxProfiles profiles, in every insertion order
ProfileDicts ==
    {d \in UNION {[1..m -> ProfileEntries] : m \in 0..MaxProfiles} :
        \A i, j \in 1..Len(d) : i # j => d[i].name # d[j].name}

\* the metadata lists the offline build produces
MetadataLists == {built.all_metadata : built \in Builds}

InitStores ==
    /\ call = [op |-> "start"]
    /\ result = EmptyResult
    /\ pmCall = [op |-> "PersonManager", name |-> <<>>, selfie_path |-> ""]
    /\ pmResult = Reply(FALSE, "", NoProfile)
    /\ ioErrors = 0
    /\ peerProfiles = <<>>
    /\ \/ /\ profiles \in ProfileDicts
          /\ profilesFile \in {NoProfilesFile} \cup {SavedFile(d) : d \in ProfileDicts}
          /\ metadata = <<>>
          /\ metadataFile = NoFile
          /\ index = NoIndex
          /\ indexFile = NoFile
       \/ /\ metadata \in MetadataLists
          /\ metadataFile \in {NoFile} \cup {save_metadata(md) : md \in MetadataLists}
          /\ profiles = <<>>
          /\ profilesFile = NoProfilesFile
          /\ index = NoIndex
          /\ indexFile = NoFile
       \/ /\ index \in {NoIndex} \cup
                       {[isNone |-> FALSE, xb |-> e] : e \in EmbeddingArrays}
          /\ indexFile \in {NoFile} \cup
                       {[exists |-> TRUE, content |-> e] : e \in EmbeddingArrays}
          /\ metadata = <<>>
          /\ metadataFile = NoFile
          /\ profiles = <<>>
          /\ profilesFile = NoProfilesFile

\* person_manager.save_profiles()
SaveProfiles ==
    /\ profilesFile' = save_profiles(profiles, profilesFile, "saved").file
    /\ pmCall' = [op |-> "save_profiles", name |-> <<>>, selfie_path |-> ""]
    /\ pmResult' = Reply(TRUE, "", NoProfile)
    /\ UNCHANGED <<profiles, ioErrors, peerProfiles, queryVars>>

\* person_manager.load_profiles()
LoadProfiles ==
    LET loaded == load_profiles(profiles, profilesFile)
    IN  /\ profiles' = loaded.profiles
        /\ pmCall' = [op |-> "load_profiles", name |-> <<>>, selfie_path |-> ""]
        /\ pmResult' = [Reply(TRUE, "", NoProfile) EXCEPT !.raised = loaded.raised]
        /\ UNCHANGED <<profilesFile, ioErrors, peerProfiles, queryVars>>

\* index_manager.save_metadata(index_manager.metadata, metadata_path)
SaveMetadata ==
    /\ metadataFile' = save_metadata(metadata)
    /\ call' = [op |-> "save_metadata"]
    /\ result' = EmptyResult
    /\ UNCHANGED <<indexFile, index, metadata, profileVars>>

\* index_manager.load_metadata(metadata_path)
LoadMetadata ==
    /\ call' = [op |-> "load_metadata"]
    /\ IF metadataFile.exists
       THEN /\ metadata' = load_metadata(metadataFile)
            /\ result' = EmptyResult
       ELSE /\ result' = Raised("FileNotFoundError")
            /\ UNCHANGED metadata
    /\ UNCHANGED <<indexFile, metadataFile, index, profileVars>>

NextStores ==
    \/ SaveProfiles
    \/ LoadProfiles
    \/ SaveMetadata
    \/ LoadMetadata
    \/ LoadIndex

SpecStores == InitStores /\ [][NextStores]_vars

---------------------------------------------------------------------------
(* What the last retrieval call should have seen, stated from the index    *)
(* alone: the records, their similarities, and the candidates that are     *)
(* among the max_results nearest and clear the threshold.                  *)

IsQuery == call.op \in {"find_photos", "find_photos_by_embedding"}
IsSearch == call.op = "search_with_threshold"
HasQuery == (IsQuery \/ IsSearch) /\ ~call.query.isNone
                /\ ~(call.selfie_path # "" /\ call.text_query # "")
                /\ (IsSearch \/ call.op = "find_photos_by_embedding"
                        \/ call.selfie_path # "" \/ call.text_query # "")

Records == 1..Len(index.xb)

\* the distance and the similarity of every record to the query of the call,
\* the candidates (the max_results nearest) and those that clear the threshold
Seen ==
    LET dist == [i \in Records |-> L2sqr(call.query.embedding, index.xb[i])]
        sim == [i \in Records |-> CosineSimilarity(dist[i])]
        closer == [i \in Records |->
                      Cardinality({j \in Records :
                          \/ dist[j] < dist[i]
                          \/ dist[j] = dist[i] /\ j < i})]
        candidates == {i \in Records : closer[i] < call.max_results}
    IN  [dist |-> dist, sim |-> sim, candidates |-> candidates,
         cleared |-> {i \in candidates : sim[i] >= call.similarity_threshold}]

RecordsOf(image_path) == {i \in Records : metadata[i].image_path = image_path}

RECURSIVE SumOver(_, _)
SumOver(sim, S) ==
    IF S = {} THEN 0
    ELSE LET i == CHOOSE x \in S : TRUE IN sim[i] + SumOver(sim, S \ {i})

MaxOver(sim, S) == CHOOSE m \in {sim[i] : i \in S} : \A i \in S : sim[i] <= m

\* grouping by image is what the call did
Grouped == \/ call.op = "find_photos_by_embedding"
           \/ call.op = "find_photos" /\ IndexMode(metadata) = "face"

\* the image paths of the list search_with_threshold returned to the call
SearchedPaths ==
    LET matches == search_with_threshold(index, metadata, call.query.embedding,
                       call.similarity_threshold, call.max_results).results
    IN  [n \in 1..Len(matches) |-> matches[n].metadata.image_path]

\* the place of the first match of a photo in that list
FirstSeen(paths, image_path) ==
    CHOOSE n \in 1..Len(paths) :
        /\ paths[n] = image_path
        /\ \A m \in 1..(n - 1) : paths[m] # image_path

---------------------------------------------------------------------------
(* C1 *)

\* C1: after any sequence of register/remove calls no two stored profile
\* names are equal ignoring case (so registering "Ann" and then "ann" leaves
\* one stored profile).
C1_NoTwoNamesEqualIgnoringCase ==
    \A i, j \in 1..Len(profiles) :
        i # j => lower(profiles[i].name) # lower(profiles[j].name)

---------------------------------------------------------------------------
(* C2 *)

\* C2: right after a successful register(n, e, p), a lookup of n in any letter
\* casing returns the profile with embedding e and selfie path p.
C2_LookupReturnsLastRegistration ==
    (pmCall.op = "register_person" /\ pmResult.success) =>
        \A name \in LookupNames :
            lower(name) = lower(strip(pmCall.name)) =>
                LET found == get_profile(profiles, name)
                IN  /\ ~found.isNone
                    /\ found.embedding = SelfieOutcome(pmCall.selfie_path).embedding
                    /\ found.selfie_path = pmCall.selfie_path
                    /\ get_person_embedding(profiles, name).embedding
                           = SelfieOutcome(pmCall.selfie_path).embedding

---------------------------------------------------------------------------
(* C3 *)

\* C3: in face-mode aggregation every PhotoResult has max_similarity equal to
\* the maximum similarity over the matches of its image path, avg_similarity
\* equal to their mean and num_matches equal to their number.
C3_FaceAggregation ==
    LET v == Seen
    IN
    (IsQuery /\ Grouped /\ IndexMode(metadata) = "face" /\ result.success) =>
        \A n \in 1..Len(result.matches) :
            LET photo == result.matches[n]
                group == v.cleared \cap RecordsOf(photo.image_path)
            IN  /\ group # {}
                /\ photo.max_similarity = MaxOver(v.sim, group)
                /\ photo.avg_similarity.num * Cardinality(group)
                       = SumOver(v.sim, group) * photo.avg_similarity.den
                /\ photo.num_matches = Cardinality(group)

---------------------------------------------------------------------------
(* C4 *)

\* C4: search_with_threshold returns exactly the records that are among the
\* max_results nearest and whose similarity 1 - d/2 is at least the threshold,
\* each once, with its similarity and distance; unfilled slots add nothing.
C4_ExactlyTheClearedCandidates ==
    LET v == Seen
    IN
    (IsSearch /\ result.raised = "") =>
        LET R == result.matches
        IN  /\ {R[a].face_id + 1 : a \in 1..Len(R)} = v.cleared
            /\ Len(R) = Cardinality(v.cleared)
            /\ \A a \in 1..Len(R) :
                  /\ R[a].similarity = v.sim[R[a].face_id + 1]
                  /\ R[a].distance = v.dist[R[a].face_id + 1]
                  /\ R[a].similarity >= call.similarity_threshold

\* a search with unfilled slots that kept a record whose similarity equals the
\* threshold and dropped a candidate below it
C4_Witness ==
    LET v == Seen
    IN
    /\ IsSearch /\ result.raised = ""
    /\ call.max_results > Len(index.xb)
    /\ \E a \in 1..Len(result.matches) :
          result.matches[a].similarity = call.similarity_threshold
    /\ \E i \in v.candidates : v.sim[i] < call.similarity_threshold

---------------------------------------------------------------------------
(* C5 *)

\* C5 as claimed: the results are in descending similarity order and two
\* results of equal similarity are in ascending face_id order.
C5_TiesByAscendingOrdinal ==
    (IsSearch /\ result.raised = "") =>
        \A a, b \in 1..Len(result.matches) :
            a < b =>
                /\ result.matches[a].similarity >= result.matches[b].similarity
                /\ result.matches[a].similarity = result.matches[b].similarity
                       => result.matches[a].face_id < result.matches[b].face_id

\* C5 as amended: the results are in descending similarity order and two
\* results of equal similarity are in the order of the index search: ascending
\* distance, and ascending face_id when the distances are equal too.
C5_TiesInSearchOrder ==
    (IsSearch /\ result.raised = "") =>
        \A a, b \in 1..Len(result.matches) :
            a < b =>
                /\ result.matches[a].similarity >= result.matches[b].similarity
                /\ result.matches[a].similarity = result.matches[b].similarity
                       => \/ result.matches[a].distance < result.matches[b].distance
                          \/ /\ result.matches[a].distance = result.matches[b].distance
                             /\ result.matches[a].face_id < result.matches[b].face_id

\* two results of equal similarity, one pair with equal distances and one
\* with different distances
C5_Witness ==
    /\ IsSearch /\ result.raised = ""
    /\ \E a, b \in 1..Len(result.matches) :
          /\ a < b
          /\ result.matches[a].similarity = result.matches[b].similarity
          /\ result.matches[a].distance < result.matches[b].distance
    /\ \E a, b \in 1..Len(result.matches) :
          /\ a < b
          /\ result.matches[a].distance = result.matches[b].distance

---------------------------------------------------------------------------
(* C6 *)

\* C6: the photos of a successful query are in descending max_similarity
\* order, and two photos of equal max_similarity are in the order in which
\* their groups were first seen in the candidate list.
C6_PhotosByMaxThenFirstSeen ==
    LET paths == SearchedPaths
    IN
    (IsQuery /\ result.success) =>
        \A a, b \in 1..Len(result.matches) :
            a < b =>
                /\ result.matches[a].max_similarity >= result.matches[b].max_similarity
                /\ result.matches[a].max_similarity = result.matches[b].max_similarity
                       => FirstSeen(paths, result.matches[a].image_path)
                              < FirstSeen(paths, result.matches[b].image_path)

\* a result with two photos of equal max_similarity and a third, lower one
C6_Witness ==
    /\ IsQuery /\ result.success
    /\ \E a, b, c \in 1..Len(result.matches) :
          /\ a < b /\ b < c
          /\ result.matches[a].max_similarity = result.matches[b].max_similarity
          /\ result.matches[b].max_similarity > result.matches[c].max_similarity

---------------------------------------------------------------------------
(* C7 *)

---------------------------------------------------------------------------
(* C8 *)

\* C8: on an index built in full_image mode a query returns one PhotoResult
\* for each record among the candidates whose similarity is at least the
\* threshold, with max_similarity = avg_similarity = that similarity and
\* num_matches = 1, in descending similarity order; for
\* find_photos_by_embedding as for the text query.
C8_FullImageOneToOne ==
    LET v == Seen
    IN
    (IsQuery /\ IndexMode(metadata) = "full_image" /\ result.success) =>
        /\ Len(result.matches) = Cardinality(v.cleared)
        /\ \A n \in 1..Len(result.matches) :
              LET photo == result.matches[n]
              IN  \E i \in v.cleared :
                     /\ metadata[i].image_path = photo.image_path
                     /\ photo.max_similarity = v.sim[i]
                     /\ photo.avg_similarity.num = v.sim[i] * photo.avg_similarity.den
                     /\ photo.num_matches = 1
        /\ \A a, b \in 1..Len(result.matches) :
              a < b => result.matches[a].avg_similarity.num * result.matches[b].avg_similarity.den
                           >= result.matches[b].avg_similarity.num * result.matches[a].avg_similarity.den

---------------------------------------------------------------------------
(* C9 *)

\* C9: in face mode the threshold is applied per candidate before grouping: a
\* face below the threshold is not among the faces of its photo, is not
\* counted in num_matches, does not enter avg_similarity and is not the
\* max_similarity.
C9_ThresholdBeforeGrouping ==
    LET v == Seen
    IN
    (IsQuery /\ IndexMode(metadata) = "face" /\ result.success) =>
        \A n \in 1..Len(result.matches) :
            LET photo == result.matches[n]
                group == v.cleared \cap RecordsOf(photo.image_path)
            IN  /\ photo.num_matches = Cardinality(group)
                /\ Len(photo.faces) = Cardinality(group)
                /\ \A f \in 1..Len(photo.faces) :
                      photo.faces[f].similarity >= call.similarity_threshold
                /\ photo.avg_similarity.den = Cardinality(group)
                /\ photo.avg_similarity.num = SumOver(v.sim, group)
                /\ \A i \in RecordsOf(photo.image_path) :
                      v.sim[i] < call.similarity_threshold
                          => photo.max_similarity > v.sim[i]

\* a photo with two faces, one clearing the threshold and one below it, that
\* is returned with the one face
C9_Witness ==
    LET v == Seen
    IN
    /\ IsQuery /\ IndexMode(metadata) = "face" /\ result.success
    /\ \E n \in 1..Len(result.matches) :
          LET photo == result.matches[n]
          IN  /\ Cardinality(RecordsOf(photo.image_path)) = 2
              /\ \E i \in RecordsOf(photo.image_path) :
                    v.sim[i] < call.similarity_threshold
              /\ photo.num_matches = 1
              /\ photo.max_similarity = One
              /\ photo.avg_similarity = [num |-> One, den |-> 1]

---------------------------------------------------------------------------
(* C10 *)

\* C10: whenever no candidate clears the threshold, find_photos and
\* find_photos_by_embedding return success = false with a message, no matches
\* and total_photos = 0, and do not raise.
C10_NoMatchIsAResult ==
    LET v == Seen
    IN
    (IsQuery /\ HasQuery /\ v.cleared = {}) =>
        /\ result.raised = ""
        /\ ~result.success
        /\ result.message # ""
        /\ result.matches = <<>>
        /\ result.total_photos = 0

\* each of the two calls made on an index none of whose records clears the
\* threshold
C10_Witness ==
    LET v == Seen
    IN
    /\ IsQuery /\ HasQuery /\ v.cleared = {}
    /\ call.op = "find_photos_by_embedding"
    /\ Len(index.xb) >= 2
    /\ ~result.success

---------------------------------------------------------------------------
(* C11 *)

\* C11: a text query on an index whose mode is face (the mode of the first
\* metadata record, face when there is none) fails with a message and returns
\* no photos: it does not raise, does not succeed, and groups no face records.
C11_TextQueryNeedsFullImage ==
    (/\ call.op = "find_photos"
     /\ call.text_query # "" /\ call.selfie_path = ""
     /\ IndexMode(metadata) = "face") =>
        /\ result.raised = ""
        /\ ~result.success
        /\ result.message # ""
        /\ result.matches = <<>>
        /\ result.total_photos = 0

---------------------------------------------------------------------------
(* C12 *)

\* C12: a retriever never holds an index whose vector count differs from its
\* number of metadata records (the mismatch is detected when the files are
\* loaded, before the first search), and no call returns a match whose
\* metadata is missing or raises on one.
C12_MismatchIsSurfaced ==
    /\ ~index.isNone => Len(index.xb) = Len(metadata)
    /\ IsQuery => result.raised # "TypeError"
    /\ IsSearch => \A a \in 1..Len(result.matches) :
                       ~result.matches[a].metadata.isNone

---------------------------------------------------------------------------
(* What person_profiles.json holds, read field by field                    *)

FileProfiles ==
    IF profilesFile.exists /\ ~profilesFile.broken
    THEN {<<profilesFile.data[i].name, profilesFile.data[i].embedding,
            profilesFile.data[i].selfie_path>> : i \in 1..Len(profilesFile.data)}
    ELSE {}

MemoryProfiles ==
    {<<profiles[i].name, profiles[i].embedding, profiles[i].selfie_path>> :
        i \in 1..Len(profiles)}

StoredNames == {profiles[i].name : i \in 1..Len(profiles)}

---------------------------------------------------------------------------
(* C13 *)

---------------------------------------------------------------------------
(* C14 *)

\* C14: register_person never raises; it fails when the trimmed name is
\* empty, the selfie is missing, shows no face or cannot be processed; and
\* whenever it fails (a save that raises included) it returns a message and
\* leaves the profiles in memory and the profile file exactly as they were.
C14_FailedRegistrationChangesNothing ==
    [][pmCall'.op = "register_person" =>
          /\ pmResult'.raised = ""
          /\ (\/ strip(pmCall'.name) = <<>>
              \/ ~PathExists(pmCall'.selfie_path)
              \/ SelfieOutcome(pmCall'.selfie_path).kind # "embedding")
                 => ~pmResult'.success
          /\ ~pmResult'.success =>
                /\ pmResult'.message # ""
                /\ profiles' = profiles
                /\ profilesFile' = profilesFile]_vars

---------------------------------------------------------------------------
(* C15 *)

\* C15: after every register_person or remove_person call that returns, the
\* profile file holds exactly the profiles held in memory (names, embeddings,
\* selfie paths).
C15_FileHoldsTheStore ==
    pmCall.op \in {"register_person", "remove_person"} =>
        /\ ~profilesFile.broken
        /\ FileProfiles = MemoryProfiles

---------------------------------------------------------------------------
(* C17 *)

\* a is before b in lexicographic order of the characters' code points
LexBefore(a, b) ==
    \/ /\ Len(a) < Len(b)
       /\ \A m \in 1..Len(a) : a[m] = b[m]
    \/ \E k \in 1..Len(a) :
          /\ k <= Len(b)
          /\ \A m \in 1..(k - 1) : a[m] = b[m]
          /\ Ord(a[k]) < Ord(b[k])

\* C17: get_all_names returns exactly the stored names, each once, in
\* lexicographically ascending order.
C17_NamesSortedEachOnce ==
    pmCall.op = "get_all_names" =>
        LET names == pmResult.names
        IN  /\ {names[i] : i \in 1..Len(names)} = StoredNames
            /\ Len(names) = Len(profiles)
            /\ \A i, j \in 1..Len(names) :
                  i < j => LexBefore(names[i], names[j])

\* three names listed in another order than they were registered in, a
\* lower-case name behind an upper-case one that follows it in the alphabet
C17_Witness ==
    /\ pmCall.op = "get_all_names"
    /\ Len(pmResult.names) = 3
    /\ pmResult.names[2] = Bob /\ pmResult.names[3] = ann
    /\ profiles[1].name = ann

---------------------------------------------------------------------------
(* C16 *)

\* the records of metadata.json, read field by field
FileRecords ==
    [i \in 1..Len(metadataFile.content) |->
        <<metadataFile.content[i].item_id, metadataFile.content[i].image_path,
          metadataFile.content[i].mode>>]

MemoryRecords ==
    [i \in 1..Len(metadata) |->
        <<metadata[i].item_id, metadata[i].image_path, metadata[i].mode>>]

---------------------------------------------------------------------------
(* C18 *)

\* C18: for the same index, query and max_results, the result for a higher
\* threshold is a prefix of the result for a lower one, so that raising the
\* threshold never adds a result.
C18_MonotonicInThreshold ==
    (IsSearch /\ result.raised = "") =>
        \A t \in Thresholds :
            t >= call.similarity_threshold =>
                LET higher == search_with_threshold(index, metadata,
                                  call.query.embedding, t, call.max_results).results
                IN  /\ Len(higher) <= Len(result.matches)
                    /\ higher = SubSeq(result.matches, 1, Len(higher))

\* a search for which a higher threshold keeps some of the results and drops
\* others
C18_Witness ==
    /\ IsSearch /\ result.raised = ""
    /\ \E t \in Thresholds :
          LET higher == search_with_threshold(index, metadata,
                            call.query.embedding, t, call.max_results).results
          IN  /\ t > call.similarity_threshold
              /\ 0 < Len(higher)
              /\ Len(higher) < Len(result.matches)

---------------------------------------------------------------------------
(* C19 *)

Min(a, b) == IF a <= b THEN a ELSE b

\* C19: search(query, k) on an index of n records gives k slots of which the
\* first min(k, n) hold the nearest records, each once, with their squared
\* distances in ascending order, and the rest hold ordinal -1; it does not
\* raise, whatever n (n = 0 included); and search_with_threshold never makes
\* a result of a slot of ordinal -1: at the lowest threshold it returns the
\* min(k, n) nearest, so a single-vector index gives that vector for every k.
C19_NearestFirstUnfilledLast ==
    LET n == Len(index.xb)
        k == call.max_results
        found == result.matches
        dist == [i \in 1..n |-> L2sqr(call.query.embedding, index.xb[i])]
    IN
    /\ (call.op \in {"search", "search_with_threshold"} /\ ~index.isNone)
            => result.raised = ""
    /\ (call.op = "search" /\ ~index.isNone) =>
          /\ Len(found) = k
          /\ \A r \in 1..k :
                IF r <= Min(k, n)
                THEN /\ found[r].idx \in 0..(n - 1)
                     /\ found[r].dist = dist[found[r].idx + 1]
                ELSE found[r].idx = -1
          /\ \A r, q \in 1..Min(k, n) :
                r < q => /\ found[r].idx # found[q].idx
                         /\ found[r].dist <= found[q].dist
          /\ \A i \in 1..n :
                (\A r \in 1..Min(k, n) : found[r].idx # i - 1)
                    => \A r \in 1..Min(k, n) : found[r].dist <= dist[i]
    /\ (call.op = "search_with_threshold" /\ ~index.isNone) =>
          /\ \A a \in 1..Len(found) : found[a].face_id \in 0..(n - 1)
          /\ Len(found) <= Min(k, n)
          /\ call.similarity_threshold = -One => Len(found) = Min(k, n)

\* a search for more neighbours than the index has records: the nearest
\* record is not the first stored, and the third slot is unfilled
C19_Witness ==
    /\ call.op = "search" /\ ~index.isNone
    /\ Len(index.xb) = 2
    /\ call.max_results > 2
    /\ result.matches[1].idx = 1
    /\ result.matches[1].dist < result.matches[2].dist
    /\ result.matches[3].idx = -1

---------------------------------------------------------------------------
(* C20 *)

\* C20: search and search_with_threshold called on a manager whose index is
\* None (nothing created, nothing loaded) raise the ValueError of search,
\* return nothing, and leave the manager and the files as they were.
C20_NoIndexIsAValueError ==
    [][(call'.op \in {"search", "search_with_threshold"} /\ index.isNone) =>
          /\ result'.raised = "ValueError"
          /\ result'.matches = <<>>
          /\ ~result'.success
          /\ index' = index
          /\ metadata' = metadata
          /\ indexFile' = indexFile
          /\ metadataFile' = metadataFile]_vars

\* search_with_threshold called after a load_index that did not find the file
C20_Witness ==
    /\ call.op = "search_with_threshold"
    /\ index.isNone
    /\ result.raised = "ValueError"

---------------------------------------------------------------------------
(* C21 *)

\* C21: load_index of a path that does not exist raises FileNotFoundError
\* and the manager holds the index it held before; load_metadata of a path
\* that does not exist raises FileNotFoundError and the manager holds the
\* metadata it held before.
C21_FailedLoadChangesNothing ==
    [][/\ (call'.op = "load_index" /\ ~indexFile.exists) =>
              /\ result'.raised = "FileNotFoundError"
              /\ index' = index
              /\ metadata' = metadata
       /\ (call'.op = "load_metadata" /\ ~metadataFile.exists) =>
              /\ result'.raised = "FileNotFoundError"
              /\ metadata' = metadata
              /\ index' = index]_vars

\* a load_index that failed on a manager holding an index of some vectors
C21_Witness ==
    /\ call.op = "load_index"
    /\ result.raised = "FileNotFoundError"
    /\ ~index.isNone
    /\ Len(index.xb) > 1

---------------------------------------------------------------------------
(* C22 *)

\* C22: after create_index(embeddings) with rows of the manager's dimension,
\* the index holds exactly the rows given, in the order given, whatever it
\* held before; with rows of another dimension create_index raises
\* ValueError and the index is the one held before.
C22_BuildReplacesTheIndex ==
    [][call'.op = "create_index" =>
          IF call'.embeddings.shape1 = EmbeddingDim
          THEN /\ result'.raised = ""
               /\ ~index'.isNone
               /\ Len(index'.xb) = Len(call'.embeddings.rows)
               /\ \A i \in 1..Len(index'.xb) :
                     index'.xb[i] = call'.embeddings.rows[i]
               /\ metadata' = metadata
          ELSE /\ result'.raised = "ValueError"
               /\ index' = index
               /\ metadata' = metadata]_vars

\* a create_index that went through on a manager holding other vectors
C22_Witness ==
    /\ call.op = "create_index"
    /\ result.raised = ""
    /\ ~call.held.isNone
    /\ Len(call.held.xb) > 0
    /\ Len(index.xb) > 0
    /\ \A i \in 1..Len(index.xb), j \in 1..Len(call.held.xb) :
          index.xb[i] # call.held.xb[j]

---------------------------------------------------------------------------
(* C23 *)

\* what a retrieval call c returns on a manager holding idx and md
Answer(c, idx, md) ==
    CASE c.op = "find_photos" ->
            find_photos(idx, md, c.selfie_path, c.text_query, c.query,
                        c.similarity_threshold, c.max_results)
      [] c.op = "find_photos_by_embedding" ->
            find_photos_by_embedding(idx, md, c.query.embedding,
                                     c.similarity_threshold, c.max_results)
      [] c.op = "search_with_threshold" ->
            [EmptyResult EXCEPT
                !.raised = search_with_threshold(idx, md, c.query.embedding,
                               c.similarity_threshold, c.max_results).raised,
                !.matches = search_with_threshold(idx, md, c.query.embedding,
                               c.similarity_threshold, c.max_results).results]
      [] OTHER ->
            [EmptyResult EXCEPT
                !.raised = search(idx, c.query.embedding, c.max_results).raised,
                !.matches = search(idx, c.query.embedding, c.max_results).found]

---------------------------------------------------------------------------
(* C24 *)

\* the profiles of a dict or of the file, as a set
Entries(d) == {d[i] : i \in 1..Len(d)}

---------------------------------------------------------------------------
(* C25 *)

\* the rounding of float32 in the distance, the conversion and the dot
\* product: four units in the last place of a float32 next to 1
Tolerance == Pow2(6)

\* C25: for two embeddings a, b of the same squared norm N, the squared
\* distance is 2N - 2 dot(a, b) in exact arithmetic; and the similarity
\* search_with_threshold makes of the distance FAISS reports, 1 - dist / 2 for
\* every distance from 0 to 4, is the dot product compute_similarity returns
\* plus 1 - N, up to float32 rounding: the two are equal when the norm is 1.
C25_ConversionIsTheDotProduct ==
    call.op = "compute_similarity" =>
        LET a == call.embedding1
            b == call.embedding2
            N == SquaredNorm(a)
            dot == a[1] * b[1] + a[2] * b[2]
            exact == (a[1] - b[1]) * (a[1] - b[1]) + (a[2] - b[2]) * (a[2] - b[2])
            direct == result.total_photos
        IN  /\ SquaredNorm(b) = N
            /\ exact = 2 * N - 2 * dot
            /\ result.raised = ""
            /\ Len(result.matches) = 1
            /\ Abs(result.matches[1].distance - exact) <= Tolerance
            /\ Abs(result.matches[1].similarity
                       - (direct + 2 * (Unit * Unit - N))) <= Tolerance
            /\ N = Unit * Unit => result.matches[1].similarity = direct

\* two different embeddings of the grid, neither orthogonal nor opposite,
\* whose distance is rounded
C25_Witness ==
    /\ call.op = "compute_similarity"
    /\ SquaredNorm(call.embedding1) = GridNorm
    /\ call.embedding1 # call.embedding2
    /\ result.total_photos > 0
    /\ result.total_photos < One
    /\ Len(result.matches) = 1
    /\ result.matches[1].distance #
           (call.embedding1[1] - call.embedding2[1])
               * (call.embedding1[1] - call.embedding2[1])
           + (call.embedding1[2] - call.embedding2[2])
               * (call.embedding1[2] - call.embedding2[2])

---------------------------------------------------------------------------
(* C26 *)

\* how many embeddings the images before image j gave that were processed
\* without raising
RECURSIVE GivenBefore(_, _)
GivenBefore(detections, j) ==
    IF j <= 1 THEN 0
    ELSE GivenBefore(detections, j - 1)
             + (IF detections[j - 1].error THEN 0
                ELSE Len(detections[j - 1].embeddings))

\* C26: after every pass of the loop of process_event_photos, in both modes,
\* all_metadata is as long as all_embeddings; record i has item_id i (from 0)
\* and the mode of the run, and names the image whose processing returned
\* embedding i; an image whose processing raised has given no embedding and
\* no record.
C26_RecordsFollowEmbeddings ==
    call.op = "loop" =>
        LET ds == call.detections
            total == GivenBefore(ds, Len(ds) + 1)
        IN  /\ Len(Collected.all_embeddings) = total
            /\ Len(Collected.all_metadata) = total
            /\ \A j \in 1..Len(ds) :
                  ~ds[j].error =>
                      \A f \in 1..Len(ds[j].embeddings) :
                          LET i == GivenBefore(ds, j) + f
                          IN  /\ Collected.all_embeddings[i] = ds[j].embeddings[f]
                              /\ Collected.all_metadata[i].item_id = i - 1
                              /\ Collected.all_metadata[i].image_path =
                                     call.image_paths[j]
                              /\ Collected.all_metadata[i].mode = call.mode

\* a face-mode run in which an image raised after a face of it had been
\* embedded, between two images that gave faces
C26_Witness ==
    /\ call.op = "loop"
    /\ call.mode = "face"
    /\ Len(call.detections) = 3
    /\ ~call.detections[1].error /\ Len(call.detections[1].embeddings) = 2
    /\ call.detections[2].error /\ Len(call.detections[2].embeddings) = 1
    /\ ~call.detections[3].error /\ Len(call.detections[3].embeddings) = 1
    /\ Len(Collected.all_metadata) = 3

---------------------------------------------------------------------------
(* C27 *)

\* C27: however a run of the offline build ends, faiss.index and
\* metadata.json are there together and the number of vectors in the one is
\* the number of records in the other; and when a search runs, the manager's
\* index has as many vectors as its metadata has records.
C27_FilesAreAPair ==
    /\ indexFile.exists = metadataFile.exists
    /\ (indexFile.exists /\ metadataFile.exists) =>
           Len(indexFile.content) = Len(metadataFile.content)
    /\ ((IsQuery \/ IsSearch) /\ ~index.isNone) =>
           Len(index.xb) = Len(metadata)

---------------------------------------------------------------------------
(* C28 *)

\* C28: when remove_person(name) has returned True, get_profile(name) and
\* get_person_embedding(name) return None and get_all_names() does not list
\* name.
C28_RemovedIsGone ==
    [][(pmCall'.op = "remove_person" /\ pmResult'.success) =>
          /\ get_profile(profiles', pmCall'.name).isNone
          /\ get_person_embedding(profiles', pmCall'.name).isNone
          /\ \A i \in 1..Len(profiles') :
                get_all_names(profiles', Len(profiles'))[i] # pmCall'.name]_vars

---------------------------------------------------------------------------
(* C29 *)

\* C29: find_photos and find_photos_by_embedding return every photo that has
\* a record in the index whose similarity to the query is at least the
\* threshold, however many records clear the threshold.
C29_EveryMatchingPhotoIsFound ==
    (IsQuery /\ HasQuery /\ result.raised = "" /\ ~index.isNone) =>
        \A i \in Records :
            Seen.sim[i] >= call.similarity_threshold =>
                \E a \in 1..Len(result.matches) :
                    result.matches[a].image_path = metadata[i].image_path

---------------------------------------------------------------------------
(* C30 *)

\* C30: extract_single_face_embedding returns None for a selfie in which
\* several faces are detected, as it does for one with no face, so that
\* register_person does not succeed with such a selfie.
C30_SeveralFacesAreRejected ==
    (/\ pmCall.op = "register_person"
     /\ ProfileKey(pmCall.name) # <<>>
     /\ PathExists(pmCall.selfie_path)
     /\ ImageReadable(pmCall.selfie_path)
     /\ Len(detect_faces(pmCall.selfie_path)) > 1) =>
        /\ extract_single_face_embedding(pmCall.selfie_path).isNone
        /\ ~pmResult.success

============================================================================
